---- MODULE Spec2Model ----
(***************************************************************************)
(* Model of server/aqiService.js: the in-memory AQI cache (a JavaScript    *)
(* Map with a TTL and a capacity), the normalisation of the provider's     *)
(* document and the cache-first lookup getCityAqi, run by concurrent       *)
(* requests on one event loop.  A lookup suspends at its two awaits        *)
(* (fetch, response.json()); everything between two awaits is one step.    *)
(* Spec has getCityAqi called directly, RouteSpec has it called by the     *)
(* route GET /api/aqi of server/index.js, and PureSpec applies the         *)
(* module's functions on their own to arguments drawn from bounded sets.   *)
(***************************************************************************)
EXTENDS Integers, Sequences, FiniteSets, TLC

(***************************************************************************)
(* Bounds of the model.                                                    *)
(***************************************************************************)
\* Capacity used for MAX_CACHE_ENTRIES.  The source sets 100; the model
\* scales it down so that a put over capacity is reachable with few keys.
MaxEntries == 2
\* The clock advances in MaxTicks steps of half a TTL.
MaxTicks == 2
\* Number of lookups that can be in flight at once.
MaxLookups == 2
\* Longest city string given to normalizeCityKey applied on its own.
MaxCityLen == 2
\* Largest AQI value given to getAqiCategory applied on its own.
MaxAqi == 302
\* Most entries of iaqi in a document given to normalizeAqicnResponse
\* applied on its own.
MaxReadings == 2

(***************************************************************************)
(* Configuration.                                                          *)
(***************************************************************************)
CACHE_TTL_MS == 5 * 60 * 1000
MAX_CACHE_ENTRIES == MaxEntries

TickMs == CACHE_TTL_MS \div 2
MaxNow == MaxTicks * TickMs

Procs == 1..MaxLookups

\* process.env.AQICN_API_TOKEN: the empty string stands for "not set".
Tokens == {"", "secret"}

(***************************************************************************)
(* Strings.  A city string is a sequence of one-character strings, so that *)
(* trim() and toLowerCase() are computed and not assumed.                  *)
(***************************************************************************)
Cities == { <<"d">>, <<" ", "D">>, <<"p">>, <<" ">> }

LowerChar(c) ==
  CASE c = "D" -> "d"
    [] c = "P" -> "p"
    [] OTHER -> c

toLowerCase(s) == [i \in 1..Len(s) |-> LowerChar(s[i])]

RECURSIVE trimStart(_)
trimStart(s) ==
  IF s # <<>> /\ Head(s) = " " THEN trimStart(Tail(s)) ELSE s

RECURSIVE trimEnd(_)
trimEnd(s) ==
  IF s # <<>> /\ s[Len(s)] = " " THEN trimEnd(SubSeq(s, 1, Len(s) - 1)) ELSE s

trim(s) == trimEnd(trimStart(s))

\* Variant: the key is lower-cased but not trimmed.
normalizeCityKeyNoTrim(cityArg) == toLowerCase(cityArg)

normalizeCityKey(cityArg) == toLowerCase(trim(cityArg))

\* JavaScript truthiness of a string: only the empty string is falsy.
Truthy(s) == s # <<>>

(***************************************************************************)
(* JavaScript values, tagged with their typeof.  NULL is null/undefined.   *)
(***************************************************************************)
NULL == [t |-> "null"]
Num(n) == [t |-> "number", v |-> n]
Str(s) == [t |-> "string", v |-> s]
\* Number.NaN: typeof "number", and no value that compares.
NaN == [t |-> "number", nan |-> TRUE]
IsNum(x) == x.t = "number"

(***************************************************************************)
(* getAqiCategory.  The argument is NULL or a number, NaN included.        *)
(***************************************************************************)
\* Variant: the upper bound of a bucket is exclusive.
Below(value, bound) == value < bound

\* value <= bound, the test of each bucket.
AtMost(value, bound) == value <= bound

getAqiCategory(aqi) ==
  IF aqi = NULL \/ aqi = NaN THEN
    [label |-> "Unknown", color |-> "#9E9E9E", level |-> "unknown",
     healthImplications |-> "Air quality data is not available."]
  ELSE IF AtMost(aqi.v, 50) THEN
    [label |-> "Good", color |-> "#009966", level |-> "good",
     healthImplications |->
       "Air quality is considered satisfactory, and air pollution poses little or no risk."]
  ELSE IF AtMost(aqi.v, 100) THEN
    [label |-> "Moderate", color |-> "#FFDE33", level |-> "moderate",
     healthImplications |->
       "Air quality is acceptable; however, for some pollutants there may be a moderate health concern for a very small number of people."]
  ELSE IF AtMost(aqi.v, 150) THEN
    [label |-> "Unhealthy for Sensitive Groups", color |-> "#FF9933", level |-> "usg",
     healthImplications |->
       "Members of sensitive groups may experience health effects. The general public is not likely to be affected."]
  ELSE IF AtMost(aqi.v, 200) THEN
    [label |-> "Unhealthy", color |-> "#CC0033", level |-> "unhealthy",
     healthImplications |->
       "Everyone may begin to experience health effects; members of sensitive groups may experience more serious health effects."]
  ELSE IF AtMost(aqi.v, 300) THEN
    [label |-> "Very Unhealthy", color |-> "#660099", level |-> "very-unhealthy",
     healthImplications |->
       "Health warnings of emergency conditions. The entire population is more likely to be affected."]
  ELSE
    [label |-> "Hazardous", color |-> "#7E0023", level |-> "hazardous",
     healthImplications |->
       "Health alert: everyone may experience more serious health effects."]

(***************************************************************************)
(* normalizeAqicnResponse.  A raw document is                              *)
(*   [status, hasData, data |-> [aqi, iaqi, cityName, dominentpol]]        *)
(* where iaqi is the sequence of Object.entries(d.iaqi), each entry        *)
(* [code, v]; a field the provider does not send is NULL.                  *)
(***************************************************************************)
LowerCode(code) ==
  CASE code = "PM10" -> "pm10"
    [] code = "PM25" -> "pm25"
    [] code = "Pm25" -> "pm25"
    [] code = "O3" -> "o3"
    [] code = "W" -> "w"
    [] OTHER -> code

UpperCode(code) ==
  CASE code = "pm25" -> "PM25"
    [] code = "pm10" -> "PM10"
    [] code = "o3" -> "O3"
    [] code = "no2" -> "NO2"
    [] code = "so2" -> "SO2"
    [] code = "co" -> "CO"
    [] code = "w" -> "W"
    [] OTHER -> code

PollutantLabel(pollutantName) ==
  CASE pollutantName = "pm25" -> "PM2.5 (fine particulate matter)"
    [] pollutantName = "pm10" -> "PM10 (coarse particulate matter)"
    [] pollutantName = "o3" -> "Ozone (O3)"
    [] pollutantName = "no2" -> "Nitrogen Dioxide (NO2)"
    [] pollutantName = "so2" -> "Sulfur Dioxide (SO2)"
    [] pollutantName = "co" -> "Carbon Monoxide (CO)"
    [] OTHER -> UpperCode(pollutantName)

\* Variant: an entry is kept whatever its reading.
HasReadingAlways(e) == TRUE

\* val && typeof val.v === "number": the entry has a numeric reading.
HasReading(e) == IsNum(e.v)

\* The loop over Object.entries(d.iaqi): measurements after the first n entries.
RECURSIVE Measurements(_, _)
Measurements(iaqi, n) ==
  IF n = 0 THEN [k \in {} |-> NULL]
  ELSE
    LET prev == Measurements(iaqi, n - 1)
        e == iaqi[n]
        pollutantName == LowerCode(e.code)
        m == [value |-> e.v, label |-> PollutantLabel(pollutantName), unit |-> "ug/m3"]
    IN IF ~HasReading(e) THEN prev
       ELSE [k \in DOMAIN prev \cup {pollutantName} |->
               IF k = pollutantName THEN m ELSE prev[k]]

\* Variant: the record names the cache key instead of the string asked for.
QueryFieldKey(cityQuery) == normalizeCityKey(cityQuery)

\* query: cityQuery
QueryField(cityQuery) == cityQuery

\* Variant: an aqi that is not a number counts as 0.
AqiValueOrZero(d) == IF IsNum(d.aqi) THEN d.aqi ELSE Num(0)

\* typeof d.aqi === "number" ? d.aqi : null
AqiValue(d) == IF IsNum(d.aqi) THEN d.aqi ELSE NULL

normalizeAqicnResponse(raw, cityQuery) ==
  IF raw.status # "ok" \/ ~raw.hasData THEN NULL
  ELSE
    LET d == raw.data
        aqi == AqiValue(d)
        category == getAqiCategory(aqi)
    IN [source |-> "aqicn.org",
        query |-> QueryField(cityQuery),
        city |-> [name |-> IF d.cityName # NULL THEN d.cityName ELSE Str(cityQuery)],
        aqi |-> [value |-> aqi, label |-> category.label, color |-> category.color,
                 level |-> category.level,
                 healthImplications |-> category.healthImplications],
        dominantPollutant |-> d.dominentpol,
        measurements |-> Measurements(d.iaqi, Len(d.iaqi)),
        meta |-> [provider |-> "World Air Quality Index (WAQI)",
                  apiDocs |-> "https://aqicn.org/api/"]]

NoData == [aqi |-> NULL, iaqi |-> <<>>, cityName |-> NULL, dominentpol |-> NULL]

DocError == [status |-> "error", hasData |-> FALSE, data |-> NoData]
DocNoData == [status |-> "ok", hasData |-> FALSE, data |-> NoData]
DocDelhi ==
  [status |-> "ok", hasData |-> TRUE,
   data |-> [aqi |-> Num(164),
             iaqi |-> << [code |-> "pm25", v |-> Num(89)] >>,
             cityName |-> Str(<<"D", "e", "l", "h", "i">>), dominentpol |-> Str("pm25")]]
DocBare ==
  [status |-> "ok", hasData |-> TRUE,
   data |-> [aqi |-> Str("-"),
             iaqi |-> << [code |-> "PM10", v |-> Str("-")] >>,
             cityName |-> NULL, dominentpol |-> NULL]]

\* The documents the provider answers a lookup with.
RawDocs == {DocError, DocNoData, DocDelhi}

(***************************************************************************)
(* The cache: a JavaScript Map, modelled as the sequence of its entries in *)
(* iteration (insertion) order.  An entry is the Map key with the fields   *)
(* of the stored value: [key, data, expiresAt, lastAccessed].              *)
(***************************************************************************)
MapHas(m, k) == \E i \in 1..Len(m) : m[i].key = k

KeysOf(m) == {m[i].key : i \in 1..Len(m)}

MapIndex(m, k) == CHOOSE i \in 1..Len(m) : m[i].key = k

MapGet(m, k) == m[MapIndex(m, k)]

MapDelete(m, k) == SelectSeq(m, LAMBDA e : e.key # k)

\* Map.prototype.set: a key already present keeps its position in the
\* iteration order and only has its value replaced; a new key is appended.
MapSet(m, k, entry) ==
  IF MapHas(m, k) THEN [m EXCEPT ![MapIndex(m, k)] = entry] ELSE Append(m, entry)

evictIfNeeded(m) ==
  IF Len(m) <= MAX_CACHE_ENTRIES THEN m
  ELSE LET oldestKey == m[1].key
       IN IF Truthy(oldestKey) THEN MapDelete(m, oldestKey) ELSE m

\* Variants of the expiry test: a strict comparison, and one that expires early.
ExpiredStrict(entry, t) == entry.expiresAt < t
ExpiredEarly(entry, t) == entry.expiresAt <= t + TickMs

\* entry.expiresAt <= now
Expired(entry, t) == entry.expiresAt <= t

\* getFromCache finds an entry and does not find it expired.
CacheHit(m, cityArg, t) ==
  LET key == normalizeCityKey(cityArg)
  IN MapHas(m, key) /\ ~Expired(MapGet(m, key), t)

\* The value getFromCache returns: the stored data, or NULL.
getFromCache(m, cityArg, t) ==
  IF CacheHit(m, cityArg, t) THEN MapGet(m, normalizeCityKey(cityArg)).data ELSE NULL

\* Variant: every get first sweeps all expired entries out of the Map.
CacheAfterGetSweep(m, cityArg, t) ==
  LET key == normalizeCityKey(cityArg)
      swept == SelectSeq(m, LAMBDA e : ~Expired(e, t))
  IN IF ~MapHas(swept, key) THEN swept
     ELSE LET entry == MapGet(swept, key)
          IN MapSet(MapDelete(swept, key), key, [entry EXCEPT !.lastAccessed = t])

\* Variant: a hit also renews the entry's expiresAt (sliding expiration).
CacheAfterGetSliding(m, cityArg, t) ==
  LET key == normalizeCityKey(cityArg)
  IN IF ~MapHas(m, key) THEN m
     ELSE IF Expired(MapGet(m, key), t) THEN MapDelete(m, key)
     ELSE LET entry == MapGet(m, key)
          IN MapSet(MapDelete(m, key), key,
                    [entry EXCEPT !.lastAccessed = t, !.expiresAt = t + CACHE_TTL_MS])

\* The cache as getFromCache leaves it.
CacheAfterGet(m, cityArg, t) ==
  LET key == normalizeCityKey(cityArg)
  IN IF ~MapHas(m, key) THEN m
     ELSE IF Expired(MapGet(m, key), t) THEN MapDelete(m, key)
     ELSE LET entry == MapGet(m, key)
          IN MapSet(MapDelete(m, key), key, [entry EXCEPT !.lastAccessed = t])

\* Variant: the TTL is added in seconds to a clock in milliseconds.
NewEntrySeconds(key, data, t) ==
  [key |-> key, data |-> data, expiresAt |-> t + CACHE_TTL_MS \div 1000, lastAccessed |-> t]

\* Variant: the entry is stamped without the TTL.
NewEntryNoTtl(key, data, t) ==
  [key |-> key, data |-> data, expiresAt |-> t, lastAccessed |-> t]

NewEntry(key, data, t) ==
  [key |-> key, data |-> data, expiresAt |-> t + CACHE_TTL_MS, lastAccessed |-> t]

setInCache(m, cityArg, data, t) ==
  LET key == normalizeCityKey(cityArg)
  IN evictIfNeeded(MapSet(m, key, NewEntry(key, data, t)))

\* Variant: a not-ok answer is cached too (negative caching).
CacheAfterResponseNegative(m, raw, cityArg, t) ==
  LET normalized == normalizeAqicnResponse(raw, cityArg)
  IN setInCache(m, cityArg, normalized, t)

\* The cache as getCityAqi leaves it once the provider's document is in.
CacheAfterResponse(m, raw, cityArg, t) ==
  LET normalized == normalizeAqicnResponse(raw, cityArg)
  IN IF raw.status # "ok" THEN m
     ELSE IF normalized # NULL THEN setInCache(m, cityArg, normalized, t)
     ELSE m

(***************************************************************************)
(* The result object of getCityAqi: the record spread, with meta replaced  *)
(* by the record's meta spread plus the cache block.                       *)
(***************************************************************************)
\* Variant: the miss block is used for hits too.
CacheMetaAlwaysMiss(hit) == [hit |-> FALSE, ttlMs |-> CACHE_TTL_MS]

CacheMeta(hit) == [hit |-> hit, ttlMs |-> CACHE_TTL_MS]

WithCacheMeta(rec, hit) ==
  LET meta == [f \in DOMAIN rec.meta \cup {"cache"} |->
                 IF f = "cache" THEN CacheMeta(hit) ELSE rec.meta[f]]
  IN [f \in DOMAIN rec \cup {"meta"} |-> IF f = "meta" THEN meta ELSE rec[f]]

\* What a lookup has settled with: kind is "pending", "value" (a result
\* object), "null" (the function returned null) or "error" (it threw).
Pending == [kind |-> "pending", value |-> NULL, error |-> ""]
Returned(v) == [kind |-> IF v = NULL THEN "null" ELSE "value", value |-> v, error |-> ""]
Thrown(e) == [kind |-> "error", value |-> NULL, error |-> e]

\* Variant: the token is never checked.
MissingTokenNever(tok) == FALSE

MissingToken(tok) == tok = ""

\* The ways the awaited fetch() and response.json() reject.
FetchRejections == {"NetworkFailure", "Timeout"}

(***************************************************************************)
(* State.                                                                  *)
(***************************************************************************)
VARIABLES
  cache,       \* the Map
  now,         \* Date.now()
  token,       \* process.env.AQICN_API_TOKEN
  pc,          \* per lookup: "idle", "awaitFetch", "awaitJson", "done"
  city,        \* per lookup: the argument of getCityAqi
  result,      \* per lookup: what it settled with
  reqs,        \* per lookup: outbound requests issued (the transport's call counter)
  sizeDelta,   \* per lookup that awaits the provider or has returned null:
               \* the change of cache.size made by its own steps
  putAt,       \* per key: time of the last setInCache if less than a TTL ago, else -1
  evicted,     \* keys removed by evictIfNeeded since that setInCache
  res,         \* per request handler of server/index.js: the responses it has sent
  input,       \* the argument of a function applied on its own
  output       \* what that application returned

vars == <<cache, now, token, pc, city, result, reqs, sizeDelta, putAt, evicted,
          res, input, output>>

\* What the lookups of aqiService.js never touch.
outside == <<res, input, output>>

Keys == {normalizeCityKey(c) : c \in Cities}

NoCity == <<>>

Init ==
  /\ cache = <<>>
  /\ now = 0
  /\ token \in Tokens
  /\ pc = [p \in Procs |-> "idle"]
  /\ city = [p \in Procs |-> NoCity]
  /\ result = [p \in Procs |-> Pending]
  /\ reqs = [p \in Procs |-> 0]
  /\ sizeDelta = [p \in Procs |-> 0]
  /\ putAt = [k \in Keys |-> -1]
  /\ evicted = {}
  /\ res = [p \in Procs |-> <<>>]
  /\ input = NULL
  /\ output = NULL

\* getCityAqi(c) is called: getFromCache, then either the hit is returned,
\* the missing token is thrown, or fetch() is called and awaited.  tok is
\* the value read from process.env.AQICN_API_TOKEN.
StartWith(tok, p, c) ==
  /\ pc[p] = "idle"
  /\ \A q \in Procs : q < p => pc[q] # "idle"   \* a call takes the first free slot
  /\ LET cached == getFromCache(cache, c, now)
     IN /\ cache' = CacheAfterGet(cache, c, now)
        /\ city' = [city EXCEPT ![p] = c]
        /\ IF cached # NULL THEN
             /\ result' = [result EXCEPT ![p] = Returned(WithCacheMeta(cached, TRUE))]
             /\ pc' = [pc EXCEPT ![p] = "done"]
             /\ UNCHANGED <<reqs, sizeDelta>>
           ELSE IF MissingToken(tok) THEN
             /\ result' = [result EXCEPT ![p] = Thrown("MissingToken")]
             /\ pc' = [pc EXCEPT ![p] = "done"]
             /\ UNCHANGED <<reqs, sizeDelta>>
           ELSE
             /\ result' = result
             /\ pc' = [pc EXCEPT ![p] = "awaitFetch"]
             /\ reqs' = [reqs EXCEPT ![p] = @ + 1]
             /\ sizeDelta' = [sizeDelta EXCEPT ![p] = Len(cache') - Len(cache)]
  /\ UNCHANGED <<now, putAt, evicted>>

Start(p, c) == StartWith(token, p, c) /\ token' = token

\* The awaited fetch() rejects (network failure, or the 8 s timeout).
FetchReject(p, e) ==
  /\ pc[p] = "awaitFetch"
  /\ result' = [result EXCEPT ![p] = Thrown(e)]
  /\ pc' = [pc EXCEPT ![p] = "done"]
  /\ sizeDelta' = [sizeDelta EXCEPT ![p] = 0]
  /\ UNCHANGED <<cache, now, token, city, reqs, putAt, evicted>>

\* The awaited fetch() resolves with a response; a response that is not ok
\* is thrown, otherwise response.json() is called and awaited.
FetchResolve(p, ok) ==
  /\ pc[p] = "awaitFetch"
  /\ IF ok THEN /\ pc' = [pc EXCEPT ![p] = "awaitJson"]
                /\ UNCHANGED <<result, sizeDelta>>
           ELSE /\ pc' = [pc EXCEPT ![p] = "done"]
                /\ result' = [result EXCEPT ![p] = Thrown("HttpStatus")]
                /\ sizeDelta' = [sizeDelta EXCEPT ![p] = 0]
  /\ UNCHANGED <<cache, now, token, city, reqs, putAt, evicted>>

\* The awaited response.json() rejects (the body is not JSON).
JsonReject(p) ==
  /\ pc[p] = "awaitJson"
  /\ result' = [result EXCEPT ![p] = Thrown("InvalidJson")]
  /\ pc' = [pc EXCEPT ![p] = "done"]
  /\ sizeDelta' = [sizeDelta EXCEPT ![p] = 0]
  /\ UNCHANGED <<cache, now, token, city, reqs, putAt, evicted>>

\* The awaited response.json() resolves with raw: the rest of getCityAqi.
\* Reading normalized.meta of a null normalized throws a TypeError.
JsonResolve(p, raw) ==
  /\ pc[p] = "awaitJson"
  /\ pc' = [pc EXCEPT ![p] = "done"]
  /\ sizeDelta' = [sizeDelta EXCEPT ![p] = IF raw.status # "ok" THEN @ ELSE 0]
  /\ cache' = CacheAfterResponse(cache, raw, city[p], now)
  /\ LET normalized == normalizeAqicnResponse(raw, city[p])
         key == normalizeCityKey(city[p])
         stored == raw.status = "ok" /\ normalized # NULL
     IN /\ result' = [result EXCEPT ![p] =
                        IF raw.status # "ok" THEN Returned(NULL)
                        ELSE IF normalized # NULL
                             THEN Returned(WithCacheMeta(normalized, FALSE))
                             ELSE Thrown("TypeError")]
        /\ putAt' = IF stored THEN [putAt EXCEPT ![key] = now] ELSE putAt
        /\ evicted' = IF stored
                      THEN (evicted \ {key}) \cup ((KeysOf(cache) \cup {key}) \ KeysOf(cache'))
                      ELSE evicted
  /\ UNCHANGED <<now, token, city, reqs>>

\* The caller of getCityAqi receives the settled promise.
Return(p) ==
  /\ pc[p] = "done"
  /\ pc' = [pc EXCEPT ![p] = "idle"]
  /\ city' = [city EXCEPT ![p] = NoCity]
  /\ result' = [result EXCEPT ![p] = Pending]
  /\ reqs' = [reqs EXCEPT ![p] = 0]
  /\ sizeDelta' = [sizeDelta EXCEPT ![p] = 0]
  /\ UNCHANGED <<cache, now, token, putAt, evicted>>

\* Time passes.
Tick ==
  /\ now + TickMs <= MaxNow
  /\ now' = now + TickMs
  /\ putAt' = [k \in Keys |-> IF putAt[k] + CACHE_TTL_MS <= now' THEN -1 ELSE putAt[k]]
  /\ evicted' = {k \in evicted : putAt'[k] # -1}
  /\ UNCHANGED <<cache, token, pc, city, result, reqs, sizeDelta>>

\* getCityAqi called directly, by any caller and with any string.
Next ==
  \/ \E p \in Procs, c \in Cities : Start(p, c) /\ UNCHANGED outside
  \/ \E p \in Procs, e \in FetchRejections : FetchReject(p, e) /\ UNCHANGED outside
  \/ \E p \in Procs, ok \in BOOLEAN : FetchResolve(p, ok) /\ UNCHANGED outside
  \/ \E p \in Procs : JsonReject(p) /\ UNCHANGED outside
  \/ \E p \in Procs, raw \in RawDocs : JsonResolve(p, raw) /\ UNCHANGED outside
  \/ \E p \in Procs : Return(p) /\ UNCHANGED outside
  \/ Tick /\ UNCHANGED outside

Spec == Init /\ [][Next]_vars

(***************************************************************************)
(* The route GET /api/aqi of server/index.js.  A handler runs one lookup;  *)
(* res[p] is the sequence of responses it has sent for its request.        *)
(***************************************************************************)
\* req.query.city: absent (NULL) or a string.
Queries ==
  {NULL, Str(<<>>), Str(<<" ">>), Str(<<"d">>), Str(<<" ", "D">>), Str(<<"p", " ">>)}

\* (req.query.city || "").toString().trim()
QueryCity(q) == trim(IF q = NULL \/ ~Truthy(q.v) THEN <<>> ELSE q.v)

MissingCityBody == [error |-> "Missing required query parameter 'city'."]
NotFoundBody(c) == [error |-> <<"No AQI data found for city '">> \o c \o <<"'.">>]
UpstreamFailureBody == [error |-> "Failed to fetch AQI data from upstream provider."]

\* res.status(code).json(body); res.json(body) answers 200.
Response(code, body) == [status |-> code, body |-> body]

\* Variant: the catch block answers with the error it caught.
SettledResponseLeaky(r, c) ==
  IF r.kind = "error" THEN Response(502, [error |-> r.error])
  ELSE IF r.kind = "null" THEN Response(404, NotFoundBody(c))
  ELSE Response(200, r.value)

\* Variant: a lookup that returned null is answered like a result.
SettledResponseNoCheck(r, c) ==
  IF r.kind = "error" THEN Response(502, UpstreamFailureBody)
  ELSE Response(200, r.value)

\* What the handler answers once the awaited getCityAqi(city) has settled
\* with r: the catch block, the !data branch, or res.json(data).
SettledResponse(r, c) ==
  IF r.kind = "error" THEN Response(502, UpstreamFailureBody)
  ELSE IF r.kind = "null" THEN Response(404, NotFoundBody(c))
  ELSE Response(200, r.value)

\* A request arrives: the handler runs up to its first response or await.
\* tok is the value the lookup reads from process.env.AQICN_API_TOKEN.
HandleWith(tok, p, q) ==
  LET c == QueryCity(q)
  IN IF ~Truthy(c)
     THEN /\ pc[p] = "idle"
          /\ \A r \in Procs : r < p => pc[r] # "idle"
          /\ res' = [res EXCEPT ![p] = <<Response(400, MissingCityBody)>>]
          /\ UNCHANGED <<cache, now, pc, city, result, reqs, sizeDelta,
                         putAt, evicted, input, output>>
     ELSE /\ StartWith(tok, p, c)
          /\ res' = [res EXCEPT ![p] = <<>>]
          /\ UNCHANGED <<input, output>>

Handle(p, q) == HandleWith(token, p, q) /\ token' = token

\* The awaited lookup has settled: the handler answers and ends.
Settle(p) ==
  /\ Return(p)
  /\ res' = [res EXCEPT ![p] = Append(@, SettledResponse(result[p], city[p]))]
  /\ UNCHANGED <<input, output>>

RouteTokens == {"", "secret", "other"}

RouteInit ==
  /\ cache = <<>>
  /\ now = 0
  /\ token \in RouteTokens
  /\ pc = [p \in Procs |-> "idle"]
  /\ city = [p \in Procs |-> NoCity]
  /\ result = [p \in Procs |-> Pending]
  /\ reqs = [p \in Procs |-> 0]
  /\ sizeDelta = [p \in Procs |-> 0]
  /\ putAt = [k \in Keys |-> -1]
  /\ evicted = {}
  /\ res = [p \in Procs |-> <<>>]
  /\ input = NULL
  /\ output = NULL

RouteNext ==
  \/ \E p \in Procs, q \in Queries : Handle(p, q)
  \/ \E p \in Procs, e \in FetchRejections : FetchReject(p, e) /\ UNCHANGED outside
  \/ \E p \in Procs, ok \in BOOLEAN : FetchResolve(p, ok) /\ UNCHANGED outside
  \/ \E p \in Procs : JsonReject(p) /\ UNCHANGED outside
  \/ \E p \in Procs, raw \in RawDocs : JsonResolve(p, raw) /\ UNCHANGED outside
  \/ \E p \in Procs : Settle(p)
  \/ Tick /\ UNCHANGED outside

RouteSpec == RouteInit /\ [][RouteNext]_vars

(***************************************************************************)
(* Vocabulary of the properties.                                           *)
(***************************************************************************)
Key(p) == normalizeCityKey(city[p])

\* The record of a result object without its cache block.
StripCache(v) ==
  [f \in DOMAIN v |->
     IF f = "meta" THEN [g \in DOMAIN v.meta \ {"cache"} |-> v.meta[g]] ELSE v[f]]

IsHit(p) == pc[p] = "done" /\ result[p].kind = "value" /\ result[p].value.meta.cache.hit
IsFresh(p) == pc[p] = "done" /\ result[p].kind = "value" /\ ~result[p].value.meta.cache.hit

\* The step is lookup p being called, and lookup p storing a record.
StartStep(p) == pc[p] = "idle" /\ pc'[p] # "idle"
PutStep(p) == pc[p] = "awaitJson" /\ pc'[p] = "done" /\ result'[p].kind = "value"
\* The step is lookup p being called and returning a hit.
HitStep(p) == StartStep(p) /\ pc'[p] = "done" /\ result'[p].kind = "value"

(***************************************************************************)
(* C1.  The cache never holds more than MAX_CACHE_ENTRIES entries, after   *)
(* any sequence of lookups for any city strings.                           *)
(***************************************************************************)
C1_SizeBound == Len(cache) <= MAX_CACHE_ENTRIES

(***************************************************************************)
(* C2.  A put that makes the size exceed MAX_CACHE_ENTRIES evicts exactly  *)
(* one entry, the one whose last put or hit is the oldest of all entries.  *)
(***************************************************************************)
C2_EvictsOldest ==
  [][\A p \in Procs :
       LET k == Key(p)
           before == KeysOf(cache) \cup {k}
           gone == before \ KeysOf(cache')
           touched(g) == IF g = k THEN now ELSE MapGet(cache, g).lastAccessed
       IN (PutStep(p) /\ Cardinality(before) > MAX_CACHE_ENTRIES) =>
            /\ Cardinality(gone) = 1
            /\ Len(cache') = Cardinality(before) - 1
            /\ \A g \in gone : \A i \in 1..Len(cache') :
                 touched(g) <= cache'[i].lastAccessed
    ]_vars

(***************************************************************************)
(* C3.  A get at or after the entry's expiresAt returns nothing and        *)
(* deletes the entry, so the size drops by one; a get strictly before      *)
(* expiresAt returns the stored record.                                    *)
(***************************************************************************)
C3_LazyExpiry ==
  [][\A p \in Procs :
       LET k == normalizeCityKey(city'[p])
       IN (StartStep(p) /\ MapHas(cache, k)) =>
            LET e == MapGet(cache, k)
            IN IF now >= e.expiresAt
               THEN /\ result'[p].kind # "value"
                    /\ ~MapHas(cache', k)
                    /\ Len(cache') = Len(cache) - 1
               ELSE /\ result'[p].kind = "value"
                    /\ StripCache(result'[p].value) = e.data
                    /\ MapHas(cache', k)
    ]_vars

\* A lookup whose own get has just removed an expired entry for its key.
C3_Witness ==
  \E p \in Procs :
    /\ pc[p] = "awaitFetch"
    /\ sizeDelta[p] = -1
    /\ ~MapHas(cache, Key(p))
    /\ now >= CACHE_TTL_MS

(***************************************************************************)
(* C4.  A lookup that finds a present, unexpired entry returns hit = true  *)
(* and issues no request; a result with hit = false comes from a lookup    *)
(* that issued exactly one request; every result carries ttlMs = 300000;   *)
(* no lookup issues more than one request.                                 *)
(***************************************************************************)
C4_HitsAndRequests ==
  [][\A p \in Procs :
       /\ reqs'[p] <= 1
       /\ (pc'[p] = "done" /\ result'[p].kind = "value") =>
            /\ result'[p].value.meta.cache.ttlMs = 300000
            /\ result'[p].value.meta.cache.hit => reqs'[p] = 0
            /\ ~result'[p].value.meta.cache.hit => reqs'[p] = 1
       /\ LET k == normalizeCityKey(city'[p])
          IN (StartStep(p) /\ MapHas(cache, k) /\ MapGet(cache, k).expiresAt > now) =>
               /\ pc'[p] = "done"
               /\ result'[p].kind = "value"
               /\ result'[p].value.meta.cache.hit
               /\ StripCache(result'[p].value) = MapGet(cache, k).data
               /\ reqs'[p] = 0
    ]_vars

\* One lookup has returned a fetched result and another a hit.
C4_Witness ==
  \E p, q \in Procs :
    /\ IsHit(p) /\ reqs[p] = 0
    /\ IsFresh(q) /\ reqs[q] = 1

(***************************************************************************)
(* C5.  Once a lookup has fetched and stored a record for a city, every    *)
(* lookup for that city less than a TTL later is a hit with no request.    *)
(* As claimed: whatever other lookups happen in between.                   *)
(***************************************************************************)
C5_ServedWithinTtl ==
  [][\A p \in Procs :
       LET k == normalizeCityKey(city'[p])
       IN (StartStep(p) /\ putAt[k] # -1 /\ now < putAt[k] + CACHE_TTL_MS) =>
            /\ pc'[p] = "done"
            /\ result'[p].kind = "value"
            /\ result'[p].value.meta.cache.hit
            /\ reqs'[p] = 0
    ]_vars

\* As amended: unless a put over capacity has evicted the entry in between.
C5_ServedUnlessEvicted ==
  [][\A p \in Procs :
       LET k == normalizeCityKey(city'[p])
       IN (StartStep(p) /\ putAt[k] # -1 /\ now < putAt[k] + CACHE_TTL_MS
             /\ k \notin evicted) =>
            /\ pc'[p] = "done"
            /\ result'[p].kind = "value"
            /\ result'[p].value.meta.cache.hit
            /\ reqs'[p] = 0
    ]_vars

\* A hit on a record stored earlier, with another key stored in between.
C5_Witness ==
  \E p \in Procs :
    /\ IsHit(p)
    /\ putAt[Key(p)] # -1
    /\ putAt[Key(p)] < now
    /\ \E k \in Keys : k # Key(p) /\ putAt[k] > putAt[Key(p)]

(***************************************************************************)
(* C6.  When the provider's status is not "ok" the lookup returns null,    *)
(* the cache's size is the same after the lookup as before it, and no      *)
(* entry exists for the key afterwards, so the next lookup for the city    *)
(* issues a new request.  As claimed: the lookup's own steps leave the     *)
(* size as it was when the lookup was called.                              *)
(***************************************************************************)
C6_SizeUnchanged ==
  [][\A p \in Procs : \A raw \in RawDocs :
       (raw.status # "ok" /\ JsonResolve(p, raw)) =>
          /\ result'[p] = Returned(NULL)
          /\ sizeDelta'[p] = 0
    ]_vars

\* As amended: the lookup returns null and writes nothing; the only change
\* it makes to the cache is the removal, by its initial get, of an expired
\* entry for its own key, so its own steps leave the size unchanged or one
\* less; its get leaves no entry for the key, and a lookup that finds no
\* unexpired entry for its key issues a new request.
C6_NotOkWritesNothing ==
  [][\A p \in Procs :
       LET k == normalizeCityKey(city'[p])
       IN /\ \A raw \in RawDocs :
               (raw.status # "ok" /\ JsonResolve(p, raw)) =>
                  /\ result'[p] = Returned(NULL)
                  /\ cache' = cache
                  /\ sizeDelta'[p] \in {-1, 0}
          /\ (StartStep(p) /\ pc'[p] = "awaitFetch") =>
               /\ ~MapHas(cache', k)
               /\ cache' = SelectSeq(cache, LAMBDA e : e.key # k)
               /\ sizeDelta'[p] = Len(cache') - Len(cache)
               /\ sizeDelta'[p] = -1 <=> (MapHas(cache, k) /\ MapGet(cache, k).expiresAt <= now)
          /\ (StartStep(p) /\ token # ""
                /\ ~(MapHas(cache, k) /\ MapGet(cache, k).expiresAt > now)) =>
               /\ pc'[p] = "awaitFetch"
               /\ reqs'[p] = 1
    ]_vars

\* A lookup that removed an expired entry has returned null on a not-ok
\* status, and the next lookup for the same key is awaiting the provider.
C6_Witness ==
  \E p, q \in Procs :
    /\ pc[p] = "done" /\ result[p] = Returned(NULL) /\ sizeDelta[p] = -1
    /\ pc[q] = "awaitFetch" /\ Key(q) = Key(p) /\ reqs[q] = 1
    /\ ~MapHas(cache, Key(p))

(***************************************************************************)
(* C7.  When the status is "ok" but normalisation yields null (no data     *)
(* payload), the lookup returns null, stores nothing and does not fail.    *)
(***************************************************************************)
C7_NoDataReturnsNull ==
  [][\A p \in Procs : \A raw \in RawDocs :
       (raw.status = "ok" /\ normalizeAqicnResponse(raw, city[p]) = NULL
          /\ JsonResolve(p, raw)) =>
          /\ result'[p] = Returned(NULL)
          /\ cache' = cache
    ]_vars

UpstreamErrors == FetchRejections \cup {"MissingToken", "HttpStatus", "InvalidJson"}

Live(m, t) == SelectSeq(m, LAMBDA e : e.expiresAt > t)

C9_ErrorsLeaveCache ==
  [][\A p \in Procs :
       \* the step that settles the lookup with the error
       /\ (pc'[p] = "done" /\ pc[p] # "done" /\ result'[p].kind = "error"
             /\ result'[p].error \in UpstreamErrors) =>
            /\ Live(cache', now) = Live(cache, now)
            /\ KeysOf(cache') \subseteq KeysOf(cache)
            /\ reqs'[p] = reqs[p]
            /\ reqs'[p] = IF result'[p].error = "MissingToken" THEN 0 ELSE 1
       \* the error that is raised is the one the caller gets
       /\ \A e \in FetchRejections : FetchReject(p, e) => result'[p] = Thrown(e)
       /\ FetchResolve(p, FALSE) => result'[p] = Thrown("HttpStatus")
       \* the steps of the lookup before it: the call that misses, the response
       /\ ((StartStep(p) /\ pc'[p] = "awaitFetch")
             \/ (pc[p] = "awaitFetch" /\ pc'[p] = "awaitJson")) =>
            /\ Live(cache', now) = Live(cache, now)
            /\ KeysOf(cache') \subseteq KeysOf(cache)
            /\ reqs'[p] = 1
    ]_vars

\* A lookup has timed out while the cache holds a live entry and, for the
\* lookup's own key, nothing.
C9_Witness ==
  \E p \in Procs :
    /\ pc[p] = "done" /\ result[p] = Thrown("Timeout")
    /\ Live(cache, now) # <<>>
    /\ ~MapHas(cache, Key(p))

(***************************************************************************)
(* C10.  Two concurrent lookups for the same uncached city both miss, both *)
(* issue a request and both put; when the later one has put, the cache     *)
(* holds exactly one entry for the key, wholly the later put's (its record *)
(* and expiresAt = its time + TTL), and the size bound holds.              *)
(***************************************************************************)
\* Lookup q stored its record while lookup p, for the same key, was awaiting.
Raced(p, q) ==
  /\ p # q
  /\ pc[p] = "awaitJson"
  /\ IsFresh(q)
  /\ Key(q) = Key(p)
  /\ MapHas(cache, Key(p))

LaterPutWins(p) ==
  LET k == Key(p)
      at == {i \in 1..Len(cache') : cache'[i].key = k}
  IN /\ Cardinality(at) = 1
     /\ \A i \in at :
          cache'[i] = [key |-> k, data |-> StripCache(result'[p].value),
                       expiresAt |-> now + CACHE_TTL_MS, lastAccessed |-> now]

C10_LastWriteWins ==
  [][\A p, q \in Procs :
       (Raced(p, q) /\ PutStep(p)) =>
          /\ reqs[p] = 1 /\ reqs[q] = 1
          /\ LaterPutWins(p)
          /\ Len(cache') <= MAX_CACHE_ENTRIES
    ]_vars

\* C10 without the size bound: the entry is wholly the later put's.
C10_EntryIsLaterPut ==
  [][\A p, q \in Procs :
       (Raced(p, q) /\ PutStep(p)) => (reqs[p] = 1 /\ reqs[q] = 1 /\ LaterPutWins(p))
    ]_vars

(***************************************************************************)
(* The functions of aqiService.js applied on their own: a call is drawn at *)
(* the start, one step applies the function and keeps what it returned.    *)
(***************************************************************************)
Unapplied == [t |-> "unapplied"]

Call(fn, arg) == [fn |-> fn, arg |-> arg]

CityChars == {" ", "d", "D", "p"}
CityStrings == UNION {[1..n -> CityChars] : n \in 0..MaxCityLen}

\* normalizeCityKey of two city strings; a put for one, then a get for the other.
KeyCalls == {Call("normalizeCityKey", <<a, b>>) : a \in CityStrings, b \in CityStrings}
PutGetCalls == {Call("setInCache,getFromCache", <<a, b>>) : a \in CityStrings, b \in CityStrings}

\* getAqiCategory of null, of NaN and of every integer from -2 to MaxAqi.
AqiValues == {NULL, NaN} \cup {Num(n) : n \in -2..MaxAqi}
CategoryCalls == {Call("getAqiCategory", a) : a \in AqiValues}

\* normalizeAqicnResponse of documents whose aqi is absent, a string or a
\* number, with up to MaxReadings sub-values of every kind.
DocAqis == {NULL, Str("-"), Num(0), Num(164)}
DocCodes == {"pm25", "PM25", "Pm25", "pm10", "o3", "no2", "so2", "co", "w"}
DocReadings == {NULL, Str("-"), Num(0), Num(89)}
DocEntries == {[code |-> c, v |-> v] : c \in DocCodes, v \in DocReadings}
DocIaqis == UNION {[1..n -> DocEntries] : n \in 0..MaxReadings}
Docs ==
  {DocError, DocNoData} \cup
  {[status |-> "ok", hasData |-> TRUE,
    data |-> [aqi |-> a, iaqi |-> i, cityName |-> NULL, dominentpol |-> NULL]] :
     a \in DocAqis, i \in DocIaqis}
NormalizeCalls == {Call("normalizeAqicnResponse", raw) : raw \in Docs}

PureCalls == KeyCalls \cup PutGetCalls \cup CategoryCalls \cup NormalizeCalls

ApplyKey ==
  /\ input.fn = "normalizeCityKey" /\ output = Unapplied
  /\ output' = <<normalizeCityKey(input.arg[1]), normalizeCityKey(input.arg[2])>>
  /\ UNCHANGED <<cache, now, token, pc, city, result, reqs, sizeDelta, putAt, evicted,
                 res, input>>

ApplyPutGet ==
  /\ input.fn = "setInCache,getFromCache" /\ output = Unapplied
  /\ LET data == normalizeAqicnResponse(DocDelhi, input.arg[1])
     IN output' = getFromCache(setInCache(cache, input.arg[1], data, now), input.arg[2], now)
  /\ UNCHANGED <<cache, now, token, pc, city, result, reqs, sizeDelta, putAt, evicted,
                 res, input>>

ApplyCategory ==
  /\ input.fn = "getAqiCategory" /\ output = Unapplied
  /\ output' = getAqiCategory(input.arg)
  /\ UNCHANGED <<cache, now, token, pc, city, result, reqs, sizeDelta, putAt, evicted,
                 res, input>>

ApplyNormalize ==
  /\ input.fn = "normalizeAqicnResponse" /\ output = Unapplied
  /\ output' = normalizeAqicnResponse(input.arg, <<"d">>)
  /\ UNCHANGED <<cache, now, token, pc, city, result, reqs, sizeDelta, putAt, evicted,
                 res, input>>

PureInit ==
  /\ cache = <<>>
  /\ now = 0
  /\ token = ""
  /\ pc = [p \in Procs |-> "idle"]
  /\ city = [p \in Procs |-> NoCity]
  /\ result = [p \in Procs |-> Pending]
  /\ reqs = [p \in Procs |-> 0]
  /\ sizeDelta = [p \in Procs |-> 0]
  /\ putAt = [k \in Keys |-> -1]
  /\ evicted = {}
  /\ res = [p \in Procs |-> <<>>]
  /\ input \in PureCalls
  /\ output = Unapplied

PureNext ==
  \/ ApplyKey
  \/ ApplyPutGet
  \/ ApplyCategory
  \/ ApplyNormalize

PureSpec == PureInit /\ [][PureNext]_vars

(***************************************************************************)
(* C11.  Every GET /api/aqi request gets exactly one response: 400 when    *)
(* the city parameter is missing or empty after trimming (no lookup is     *)
(* started and the cache is untouched), 404 when the lookup returns null,  *)
(* 502 when it throws whatever the error, 200 with its result otherwise.   *)
(* Stated on RouteSpec: no handler has sent more than one response, none   *)
(* while its lookup is pending, and each step that ends a handler sends    *)
(* the response that belongs to the query or to what the lookup settled    *)
(* with.                                                                   *)
(***************************************************************************)
Sends(p) == res'[p] # res[p] /\ res'[p] # <<>>

C11_OneResponsePerRequest ==
  /\ [](\A p \in Procs : Len(res[p]) <= 1 /\ (pc[p] # "idle" => res[p] = <<>>))
  /\ [][\A p \in Procs :
          /\ \A q \in Queries :
               Handle(p, q) =>
                 IF Truthy(QueryCity(q))
                 THEN pc'[p] # "idle" /\ city'[p] = QueryCity(q) /\ res'[p] = <<>>
                 ELSE /\ res'[p] = <<Response(400, MissingCityBody)>>
                      /\ UNCHANGED <<cache, pc, reqs, result>>
          /\ (pc[p] = "done" /\ pc'[p] = "idle") =>
               /\ Len(res'[p]) = 1
               /\ res'[p][1].status =
                    (CASE result[p].kind = "null" -> 404
                       [] result[p].kind = "error" -> 502
                       [] OTHER -> 200)
               /\ result[p].kind = "null" => res'[p][1].body = NotFoundBody(city[p])
               /\ result[p].kind = "error" => res'[p][1].body = UpstreamFailureBody
               /\ result[p].kind = "value" => res'[p][1].body = result[p].value
          /\ Sends(p) => pc'[p] = "idle" /\ pc[p] \in {"idle", "done"}
       ]_vars

\* A request without a city has been answered 400 beside a stored record,
\* while the other handler answered 502 to a lookup that threw.
C11_Witness ==
  /\ cache # <<>>
  /\ res[1] = <<Response(400, MissingCityBody)>>
  /\ Len(res[2]) = 1 /\ res[2][1].status = 502

(***************************************************************************)
(* C12.  No response depends on the value of the access token: two runs    *)
(* that differ only in the (non-empty) token and see the same provider     *)
(* behaviour send the same statuses and bodies, and every failure of the   *)
(* lookup is answered with the one fixed 502 body.                         *)
(* Stated on RouteSpec by unwinding: every step a handler takes with the   *)
(* configured token is, between the same values of all other variables     *)
(* (the responses included), also its step with any other non-empty token; *)
(* the steps that are not a handler's start do not read the token.  Two    *)
(* runs with the same requests, answers of the provider and schedule then  *)
(* stay equal in everything but the token.                                 *)
(***************************************************************************)
C12_TokenIndependent ==
  /\ [](\A p \in Procs : \A i \in 1..Len(res[p]) :
          res[p][i].status = 502 => res[p][i].body = UpstreamFailureBody)
  /\ [][token # "" =>
          \A t \in RouteTokens \ {""} : \A p \in Procs, q \in Queries :
            Handle(p, q) => HandleWith(t, p, q)]_vars

\* With a token configured, one handler has answered 502 and the other 200.
C12_Witness ==
  /\ token = "other"
  /\ Len(res[1]) = 1 /\ res[1][1].status = 502
  /\ Len(res[2]) = 1 /\ res[2][1].status = 200

(***************************************************************************)
(* C13.  City strings that differ only in letter case or in surrounding    *)
(* whitespace have the same cache key, so a record put for one of them is  *)
(* what a get for the other returns; normalizeCityKey is idempotent.       *)
(* Stated on PureSpec over all pairs of strings up to MaxCityLen.          *)
(***************************************************************************)
CasePairs == {{"d", "D"}, {"p", "P"}}

SameLetters(x, y) ==
  /\ Len(x) = Len(y)
  /\ \A k \in 1..Len(x) : x[k] = y[k] \/ {x[k], y[k]} \in CasePairs

\* s is SubSeq(s, i, j) with nothing but blanks around it.
Padded(s, i, j) ==
  /\ 1 <= i /\ j <= Len(s) /\ i <= j + 1
  /\ \A k \in 1..Len(s) : (k < i \/ k > j) => s[k] = " "

\* a and b differ only in letter case or surrounding whitespace.
Variant(a, b) ==
  \E i1 \in 1..Len(a) + 1, j1 \in 0..Len(a), i2 \in 1..Len(b) + 1, j2 \in 0..Len(b) :
    /\ Padded(a, i1, j1) /\ Padded(b, i2, j2)
    /\ SameLetters(SubSeq(a, i1, j1), SubSeq(b, i2, j2))

C13_SameKey ==
  output # Unapplied =>
    LET a == input.arg[1]
        b == input.arg[2]
    IN /\ input.fn = "normalizeCityKey" =>
            /\ Variant(a, b) => output[1] = output[2]
            /\ normalizeCityKey(output[1]) = output[1]
       /\ input.fn = "setInCache,getFromCache" =>
            (Variant(a, b) => output = normalizeAqicnResponse(DocDelhi, a))

\* A record put for one spelling has been got with another.
C13_Witness ==
  /\ output # Unapplied /\ output # NULL
  /\ input.fn = "setInCache,getFromCache"
  /\ input.arg[1] = <<" ", "D">> /\ input.arg[2] = <<"d", " ">>

(***************************************************************************)
(* C14.  The record stored in the cache is the normalized record without   *)
(* cache metadata, and a get after the put returns a record equal to it in *)
(* every field; reading never changes the stored record, so every hit      *)
(* returns the stored record plus the meta.cache block only.               *)
(* Stated on Spec: a put stores the returned record less its cache block   *)
(* and a get for the city then returns it; a hit leaves the entry's data   *)
(* as it was and returns it with the cache block added; the data of an     *)
(* entry changes only by a put for its key.                                *)
(***************************************************************************)
ReadsNeverMutate ==
  /\ \A p \in Procs :
       HitStep(p) =>
         LET k == normalizeCityKey(city'[p])
         IN /\ MapGet(cache', k).data = MapGet(cache, k).data
            /\ result'[p].value = WithCacheMeta(MapGet(cache, k).data, TRUE)
            /\ StripCache(result'[p].value) = MapGet(cache, k).data
  /\ \A k \in KeysOf(cache) \cap KeysOf(cache') :
       MapGet(cache', k).data # MapGet(cache, k).data =>
         \E q \in Procs : PutStep(q) /\ Key(q) = k

C14_StoredRecordRoundTrip ==
  /\ [](\A i \in 1..Len(cache) : "cache" \notin DOMAIN cache[i].data.meta)
  /\ [][/\ \A p \in Procs :
            PutStep(p) =>
              /\ getFromCache(cache', city[p], now') = StripCache(result'[p].value)
              /\ \E raw \in RawDocs :
                   getFromCache(cache', city[p], now') = normalizeAqicnResponse(raw, city[p])
          /\ ReadsNeverMutate
       ]_vars

\* The same for the puts whose entry is in the Map when the put returns;
\* this holds.
C14_RoundTripWhenKept ==
  /\ [](\A i \in 1..Len(cache) : "cache" \notin DOMAIN cache[i].data.meta)
  /\ [][/\ \A p \in Procs :
            (PutStep(p) /\ MapHas(cache', Key(p))) =>
              /\ getFromCache(cache', city[p], now') = StripCache(result'[p].value)
              /\ MapGet(cache', Key(p)).data = StripCache(result'[p].value)
              /\ \E raw \in RawDocs :
                   MapGet(cache', Key(p)).data = normalizeAqicnResponse(raw, city[p])
          /\ ReadsNeverMutate
       ]_vars

(***************************************************************************)
(* C15.  getAqiCategory is total and its buckets have inclusive upper      *)
(* bounds: null and NaN give Unknown, a value <= 50 Good, 51..100          *)
(* Moderate, 101..150 Unhealthy for Sensitive Groups, 151..200 Unhealthy,  *)
(* 201..300 Very Unhealthy, above 300 Hazardous.                           *)
(* Stated on PureSpec for null, NaN and every integer from -2 to MaxAqi.   *)
(***************************************************************************)
CategoryFields == {"label", "color", "level", "healthImplications"}

BucketLabel(n) ==
  CASE n \in 51..100 -> "Moderate"
    [] n \in 101..150 -> "Unhealthy for Sensitive Groups"
    [] n \in 151..200 -> "Unhealthy"
    [] n \in 201..300 -> "Very Unhealthy"
    [] n > 300 -> "Hazardous"
    [] OTHER -> "Good"

BucketLevel(label) ==
  CASE label = "Good" -> "good"
    [] label = "Moderate" -> "moderate"
    [] label = "Unhealthy for Sensitive Groups" -> "usg"
    [] label = "Unhealthy" -> "unhealthy"
    [] label = "Very Unhealthy" -> "very-unhealthy"
    [] label = "Hazardous" -> "hazardous"
    [] OTHER -> "unknown"

C15_Buckets ==
  (input.fn = "getAqiCategory" /\ output # Unapplied) =>
    /\ DOMAIN output = CategoryFields
    /\ output.label =
         (IF input.arg = NULL \/ input.arg = NaN THEN "Unknown"
          ELSE BucketLabel(input.arg.v))
    /\ output.level = BucketLevel(output.label)

\* getAqiCategory has been applied to the bound 150 of a bucket.
C15_Witness ==
  /\ input = Call("getAqiCategory", Num(150))
  /\ output # Unapplied
  /\ output.level = "usg"

(***************************************************************************)
(* C16.  A hit on a present, unexpired entry moves its key to the most     *)
(* recently used position and sets lastAccessed to now; it leaves the      *)
(* entry's record and expiresAt and every other entry unchanged.  Hits     *)
(* never extend the lifetime: at or after the put time plus the TTL no get *)
(* finds the entry, however often it was hit.                              *)
(* Stated on Spec: the step of a lookup that returns a hit, and every      *)
(* call for a key whose last put is a TTL or more ago.                     *)
(***************************************************************************)
C16_HitTouchesOnly ==
  [][\A p \in Procs :
       LET k == normalizeCityKey(city'[p])
           n == Len(cache)
           others(m) == SelectSeq(m, LAMBDA e : e.key # k)
       IN /\ HitStep(p) =>
               /\ Len(cache') = n
               /\ cache'[n].key = k
               /\ cache'[n].lastAccessed = now
               /\ cache'[n].data = MapGet(cache, k).data
               /\ cache'[n].expiresAt = MapGet(cache, k).expiresAt
               /\ DOMAIN cache'[n] = DOMAIN MapGet(cache, k)
               /\ SubSeq(cache', 1, n - 1) = others(cache)
          /\ (StartStep(p) /\ putAt[k] = -1) =>
               /\ ~HitStep(p)
               /\ ~MapHas(cache', k)
    ]_vars

\* A hit has moved its entry behind an entry that was put after it, and
\* the entry was touched after its put.
C16_Witness ==
  \E p \in Procs :
    /\ IsHit(p)
    /\ Len(cache) = 2
    /\ cache[2].key = Key(p)
    /\ cache[2].lastAccessed = now
    /\ cache[2].expiresAt < now + CACHE_TTL_MS
    /\ putAt[cache[1].key] > putAt[Key(p)]
    /\ putAt[Key(p)] # -1

(***************************************************************************)
(* C17.  An entry leaves the store in two ways only: a get for its own key *)
(* at or after its expiresAt, or the capacity eviction of a put.  No       *)
(* lookup for another key removes it otherwise; an expired entry that is   *)
(* not looked up again stays and counts toward the capacity until a put    *)
(* evicts it.                                                              *)
(* Stated on Spec: every key that a step removes is the key of a call      *)
(* that found it expired, or the step is a put that took the Map over      *)
(* MAX_CACHE_ENTRIES; such a put evicts by position, expired or not.       *)
(***************************************************************************)
ExpiredGet(k) ==
  \E p \in Procs :
    StartStep(p) /\ normalizeCityKey(city'[p]) = k /\ MapGet(cache, k).expiresAt <= now

PutOverCapacity ==
  \E p \in Procs :
    PutStep(p) /\ Cardinality(KeysOf(cache) \cup {Key(p)}) > MAX_CACHE_ENTRIES

C17_OnlyExpiryOrEviction ==
  [][/\ \A k \in KeysOf(cache) \ KeysOf(cache') : ExpiredGet(k) \/ PutOverCapacity
     /\ (PutOverCapacity /\ Truthy(cache[1].key)) => cache[1].key \notin KeysOf(cache')
    ]_vars

\* A put has evicted an entry within its TTL while an expired entry, not
\* looked up since, is still in the full store.
C17_Witness ==
  /\ Len(cache) = MAX_CACHE_ENTRIES
  /\ \E k \in evicted : putAt[k] # -1 /\ k \notin KeysOf(cache)
  /\ \E i \in 1..Len(cache) : cache[i].expiresAt <= now

(***************************************************************************)
(* C18.  In every reachable state every entry of the store has             *)
(* lastAccessed < expiresAt and expiresAt = (time of the put that created  *)
(* it) + TTL, the TTL being 300000 ms.                                     *)
(* Stated on Spec: the invariant on the entries, with putAt as the time    *)
(* of the put while it is less than a TTL ago; a put stamps its entry with *)
(* now and now + 300000; no other step changes an entry's expiresAt.       *)
(***************************************************************************)
C18_EntryTimes ==
  /\ [](\A i \in 1..Len(cache) :
          LET e == cache[i]
          IN /\ e.lastAccessed < e.expiresAt
             /\ e.lastAccessed <= now
             /\ putAt[e.key] # -1 => e.expiresAt = putAt[e.key] + 300000
             /\ putAt[e.key] = -1 => e.expiresAt <= now)
  /\ [][/\ \A p \in Procs :
            (PutStep(p) /\ MapHas(cache', Key(p))) =>
              /\ MapGet(cache', Key(p)).expiresAt = now + 300000
              /\ MapGet(cache', Key(p)).lastAccessed = now
          /\ \A k \in KeysOf(cache) \cap KeysOf(cache') :
               MapGet(cache', k).expiresAt # MapGet(cache, k).expiresAt =>
                 \E q \in Procs : PutStep(q) /\ Key(q) = k
       ]_vars

\* An entry put earlier has been touched since, beside an expired entry.
C18_Witness ==
  \E i, j \in 1..Len(cache) :
    /\ putAt[cache[i].key] # -1
    /\ cache[i].lastAccessed > putAt[cache[i].key]
    /\ cache[i].expiresAt = putAt[cache[i].key] + CACHE_TTL_MS
    /\ cache[j].expiresAt <= now

(***************************************************************************)
(* C19.  Every record produced by normalization, stored or returned has    *)
(* the category (label, color, level, healthImplications) that             *)
(* getAqiCategory gives for its own aqi.value; when the provider's aqi is  *)
(* not a number the record is still produced, with aqi.value null (not 0)  *)
(* and the category Unknown.                                               *)
(* Stated on PureSpec: the records normalizeAqicnResponse returns, and     *)
(* the records got back from the cache after a put.                        *)
(***************************************************************************)
CategoryOf(rec) == [f \in CategoryFields |-> rec.aqi[f]]

C19_CategoryOfOwnValue ==
  output # Unapplied =>
    /\ (input.fn \in {"normalizeAqicnResponse", "setInCache,getFromCache"} /\ output # NULL) =>
         /\ DOMAIN output.aqi = CategoryFields \cup {"value"}
         /\ CategoryOf(output) = getAqiCategory(output.aqi.value)
    /\ (input.fn = "normalizeAqicnResponse" /\ input.arg.status = "ok" /\ input.arg.hasData) =>
         /\ output # NULL
         /\ IF IsNum(input.arg.data.aqi)
            THEN output.aqi.value = input.arg.data.aqi
            ELSE output.aqi.value = NULL /\ output.aqi.label = "Unknown"

\* A document whose aqi is the string "-" has been normalized.
C19_Witness ==
  /\ input.fn = "normalizeAqicnResponse"
  /\ input.arg.status = "ok" /\ input.arg.hasData
  /\ input.arg.data.aqi = Str("-")
  /\ output # Unapplied
  /\ output.aqi.level = "unknown"

(***************************************************************************)
(* C20.  The measurements of a normalized record hold exactly the          *)
(* lower-cased pollutant codes whose sub-value has a numeric reading v,    *)
(* each with value v, the unit and the fixed label of a known code (pm25,  *)
(* pm10, o3, no2, so2, co) or else the upper-cased code; a code without a  *)
(* numeric reading is absent, never present with a null value.             *)
(* Stated on PureSpec; where two codes of a document have the same lower   *)
(* case, v is the reading of the later one.                                *)
(***************************************************************************)
FixedLabels ==
  [pm25 |-> "PM2.5 (fine particulate matter)", pm10 |-> "PM10 (coarse particulate matter)",
   o3 |-> "Ozone (O3)", no2 |-> "Nitrogen Dioxide (NO2)", so2 |-> "Sulfur Dioxide (SO2)",
   co |-> "Carbon Monoxide (CO)"]

C20_Measurements ==
  (input.fn = "normalizeAqicnResponse" /\ output # Unapplied /\ output # NULL) =>
    LET iaqi == input.arg.data.iaqi
        numeric == {i \in 1..Len(iaqi) : iaqi[i].v.t = "number"}
        last(k) == CHOOSE i \in numeric :
                     /\ LowerCode(iaqi[i].code) = k
                     /\ \A j \in numeric : LowerCode(iaqi[j].code) = k => j <= i
        ms == output.measurements
    IN /\ DOMAIN ms = {LowerCode(iaqi[i].code) : i \in numeric}
       /\ \A k \in DOMAIN ms :
            /\ DOMAIN ms[k] = {"value", "label", "unit"}
            /\ ms[k].value = iaqi[last(k)].v
            /\ ms[k].value.t = "number"
            /\ ms[k].unit = "ug/m3"
            /\ ms[k].label = IF k \in DOMAIN FixedLabels THEN FixedLabels[k]
                             ELSE UpperCode(k)

\* A document with an upper-case known code that has a reading and an
\* unknown code without one has been normalized.
C20_Witness ==
  /\ input.fn = "normalizeAqicnResponse"
  /\ output # Unapplied /\ output # NULL
  /\ input.arg.data.iaqi = << [code |-> "PM25", v |-> Num(89)], [code |-> "w", v |-> Str("-")] >>
  /\ DOMAIN output.measurements = {"pm25"}

(***************************************************************************)
(* C21.  The query field of a result served from the cache is the city     *)
(* string of the lookup whose put created the entry, not the string given  *)
(* to the current lookup: the two may differ in letter case or surrounding *)
(* whitespace.  The query field of a result with meta.cache.hit = false is *)
(* the string given to that lookup.                                        *)
(* Stated on Spec: a put stores a record whose query is its lookup's city  *)
(* string, a hit returns the query of the entry it finds, and the query    *)
(* of an entry that stays changes only by a put for its key.               *)
(***************************************************************************)
C21_QueryOfStoringLookup ==
  /\ [](\A p \in Procs : IsFresh(p) => result[p].value.query = city[p])
  /\ [][/\ \A p \in Procs :
            /\ PutStep(p) =>
                 /\ result'[p].value.query = city[p]
                 /\ MapHas(cache', Key(p)) => MapGet(cache', Key(p)).data.query = city[p]
            /\ HitStep(p) =>
                 LET k == normalizeCityKey(city'[p])
                 IN /\ result'[p].value.query = MapGet(cache, k).data.query
                    /\ normalizeCityKey(result'[p].value.query) = k
          /\ \A k \in KeysOf(cache) \cap KeysOf(cache') :
               MapGet(cache', k).data.query # MapGet(cache, k).data.query =>
                 \E q \in Procs : PutStep(q) /\ Key(q) = k
       ]_vars

\* A hit whose query field is another spelling than the string asked for.
C21_Witness ==
  \E p \in Procs :
    /\ IsHit(p)
    /\ result[p].value.query # city[p]
    /\ MapHas(cache, Key(p))
    /\ MapGet(cache, Key(p)).data.query = result[p].value.query

====
